---------------------------- MODULE Spec2Model ----------------------------
(***************************************************************************)
(* Voice Agent API (src/backend/main.py): the three request handlers       *)
(* POST /transcribe, POST /summarize and POST /send-email, the temporary   *)
(* file store they use, and the summary normalisation of /summarize.       *)
(*                                                                         *)
(* Text is a sequence of characters, each character a one-character        *)
(* string (named strings stand for the backtick, the bullet dot and the    *)
(* three non-ASCII characters of the source).  The Python string methods   *)
(* and json.loads are operators over such sequences, written as the        *)
(* library computes them.  A value computed once and read several times    *)
(* is the parameter of a helper operator.                                  *)
(***************************************************************************)
EXTENDS Integers, Sequences, FiniteSets, TLC

(***************************************************************************)
(* Characters                                                              *)
(***************************************************************************)
NL == "\n"
DQ == "\""
\* U+0060, the backtick (three of them are a code fence)
BT == "backtick"
\* U+2022, the bullet dot
BULLET == "bullet"
\* U+00E2, U+20AC, U+00A2: the three characters main.py:275 and 277 hold
ACIRC == "a_circ"
EURO == "euro"
CENT == "cent"

Digits == {"0", "1", "2", "3", "4", "5", "6", "7", "8", "9"}
NonZeroDigits == Digits \ {"0"}

\* the characters str.strip() removes and json skips, among the model's
Whitespace == {" ", NL, "\t", "\r"}

\* str.lower, character by character
UpperLetters ==
  <<"A", "B", "C", "D", "E", "F", "G", "H", "I", "J", "K", "L", "M",
    "N", "O", "P", "Q", "R", "S", "T", "U", "V", "W", "X", "Y", "Z">>
LowerLetters ==
  <<"a", "b", "c", "d", "e", "f", "g", "h", "i", "j", "k", "l", "m",
    "n", "o", "p", "q", "r", "s", "t", "u", "v", "w", "x", "y", "z">>
LowerChar(c) ==
  IF \E i \in DOMAIN UpperLetters : UpperLetters[i] = c
  THEN LowerLetters[CHOOSE i \in DOMAIN UpperLetters : UpperLetters[i] = c]
  ELSE c

Lower(s) == [i \in 1..Len(s) |-> LowerChar(s[i])]

(***************************************************************************)
(* Python str methods                                                      *)
(***************************************************************************)
\* the least and the greatest of a set of positions, 0 for the empty set
MinOrZero(S) == IF S = {} THEN 0 ELSE CHOOSE p \in S : \A q \in S : p <= q
MaxOrZero(S) == IF S = {} THEN 0 ELSE CHOOSE p \in S : \A q \in S : p >= q

\* s[i:i+len(sub)] == sub, positions from 1
MatchAt(s, sub, i) ==
  /\ i >= 1
  /\ i + Len(sub) - 1 <= Len(s)
  /\ \A k \in 1..Len(sub) : s[i + k - 1] = sub[k]

\* str.find from position i: the first match at or after i, 0 for none
Find(s, sub, i) == MinOrZero({p \in i..(Len(s) - Len(sub) + 1) : MatchAt(s, sub, p)})

\* sub in s
Contains(s, sub) == Find(s, sub, 1) # 0

\* s.startswith(sub)
StartsWith(s, sub) == MatchAt(s, sub, 1)

\* s[i:], positions from 1
From(s, i) == SubSeq(s, i, Len(s))

RECURSIVE Split(_, _)
\* s.split(sep) with the first match of sep at p (0: none)
SplitAt(s, sep, p) ==
  IF p = 0 THEN <<s>>
  ELSE <<SubSeq(s, 1, p - 1)>> \o Split(From(s, p + Len(sep)), sep)

\* s.split(sep): the parts between the matches of sep, found left to right
Split(s, sep) == SplitAt(s, sep, Find(s, sep, 1))

\* s.split(sep, 1) with the first match of sep at p (0: none)
SplitOnceAt(s, sep, p) ==
  IF p = 0 THEN <<s>> ELSE <<SubSeq(s, 1, p - 1), From(s, p + Len(sep))>>

\* s.split(sep, 1)
SplitOnce(s, sep) == SplitOnceAt(s, sep, Find(s, sep, 1))

\* s[i:] for the first position i to keep, "" when there is none
KeepFrom(s, i) == IF i = 0 THEN <<>> ELSE From(s, i)
\* s[:i] for the last position i to keep, "" when there is none
KeepTo(s, i) == IF i = 0 THEN <<>> ELSE SubSeq(s, 1, i)

\* s.lstrip(chars), chars a set of characters
LStripChars(s, chars) == KeepFrom(s, MinOrZero({i \in 1..Len(s) : s[i] \notin chars}))

\* s.rstrip(chars)
RStripChars(s, chars) == KeepTo(s, MaxOrZero({i \in 1..Len(s) : s[i] \notin chars}))

\* s.strip()
Strip(s) == RStripChars(LStripChars(s, Whitespace), Whitespace)

RECURSIVE Join(_, _)
\* sep.join(parts)
Join(parts, sep) ==
  IF Len(parts) = 0 THEN <<>>
  ELSE IF Len(parts) = 1 THEN parts[1]
  ELSE parts[1] \o sep \o Join(Tail(parts), sep)

(***************************************************************************)
(* json.loads.  A value is a record [t, s, items]:                         *)
(*   t = "str"   s the characters                                          *)
(*   t = "int", "float"   s the number as written                          *)
(*   t = "null", "bool"   s the literal                                    *)
(*   t = "list"  items the elements                                        *)
(*   t = "dict"  items the members in order, each [t |-> "pair", s the     *)
(*               key, items |-> <<value>>]                                 *)
(* The characters of the model hold no backslash and no control character  *)
(* but the newline, so a string literal has no escapes.                    *)
(***************************************************************************)
JVal(t, s, items) == [t |-> t, s |-> s, items |-> items]
JStr(s) == JVal("str", s, <<>>)
JInt(s) == JVal("int", s, <<>>)
JNull == JVal("null", <<"n", "u", "l", "l">>, <<>>)
JTrue == JVal("bool", <<"t", "r", "u", "e">>, <<>>)
JFalse == JVal("bool", <<"f", "a", "l", "s", "e">>, <<>>)
JList(items) == JVal("list", <<>>, items)
JPair(k, v) == JVal("pair", k, <<v>>)
JDict(pairs) == JVal("dict", <<>>, pairs)

\* a scan result: ok, the value, the position after it; not ok is
\* json.JSONDecodeError
Scanned(v, p) == [ok |-> TRUE, v |-> v, p |-> p]
ScanError == [ok |-> FALSE, v |-> JNull, p |-> 0]

\* json.decoder WHITESPACE.match(s, i).end()
RECURSIVE SkipWs(_, _)
SkipWs(s, i) == IF i <= Len(s) /\ s[i] \in Whitespace THEN SkipWs(s, i + 1) ELSE i

\* the end of the digits \d* from i
RECURSIVE SkipDigits(_, _)
SkipDigits(s, i) ==
  IF i <= Len(s) /\ s[i] \in Digits THEN SkipDigits(s, i + 1) ELSE i

\* json.scanner NUMBER_RE = (-?(?:0|[1-9]\d*))(\.\d+)?([eE][-+]?\d+)?
\* the end of (?:0|[1-9]\d*) from d, 0 for no match
IntEnd(s, d) ==
  IF d > Len(s) THEN 0
  ELSE IF s[d] = "0" THEN d + 1
  ELSE IF s[d] \in NonZeroDigits THEN SkipDigits(s, d + 1)
  ELSE 0
\* the end of (\.\d+)? from p
FracEnd(s, p) ==
  IF p + 1 <= Len(s) /\ s[p] = "." /\ s[p + 1] \in Digits
  THEN SkipDigits(s, p + 1) ELSE p
\* the end of [-+]? from e
SignEnd(s, e) == IF e <= Len(s) /\ s[e] \in {"-", "+"} THEN e + 1 ELSE e
\* the end of ([eE][-+]?\d+)? from p, the digits expected at e
ExpDigitsEnd(s, p, e) ==
  IF p <= Len(s) /\ s[p] \in {"e", "E"} /\ e <= Len(s) /\ s[e] \in Digits
  THEN SkipDigits(s, e) ELSE p
ExpEnd(s, p) == ExpDigitsEnd(s, p, SignEnd(s, p + 1))
\* the match from i to end: an int when the integer part is all of it
NumberValue(s, i, intEnd, end) ==
  Scanned(JVal(IF end = intEnd THEN "int" ELSE "float", SubSeq(s, i, end - 1), <<>>),
          end)
NumberFrom(s, i, intEnd) ==
  IF intEnd = 0 THEN ScanError
  ELSE NumberValue(s, i, intEnd, ExpEnd(s, FracEnd(s, intEnd)))
\* NUMBER_RE.match(s, i)
ScanNumber(s, i) ==
  NumberFrom(s, i, IntEnd(s, IF i <= Len(s) /\ s[i] = "-" THEN i + 1 ELSE i))

\* json.decoder.scanstring (strict) from i, after the opening quote, to the
\* closing quote at q (0: none); a control character inside is an error
StringTo(s, i, q) ==
  IF q = 0 THEN ScanError
  ELSE IF \E k \in i..(q - 1) : s[k] \in {NL, "\t", "\r"} THEN ScanError
  ELSE Scanned(JStr(SubSeq(s, i, q - 1)), q + 1)
ScanString(s, i) == StringTo(s, i, Find(s, <<DQ>>, i))

RECURSIVE ScanOnce(_, _)
RECURSIVE ScanArrayRest(_, _, _)
RECURSIVE ScanObjectRest(_, _, _)

\* json.decoder.JSONArray: after a value, at j: "]" ends, "," goes on
ArrayNext(s, items, j) ==
  IF j > Len(s) THEN ScanError
  ELSE IF s[j] = "]" THEN Scanned(JList(items), j + 1)
  ELSE IF s[j] = "," THEN ScanArrayRest(s, SkipWs(s, j + 1), items)
  ELSE ScanError
ArrayValue(s, items, v) ==
  IF ~v.ok THEN ScanError ELSE ArrayNext(s, Append(items, v.v), SkipWs(s, v.p))
\* json.decoder.JSONArray: the values from i on, after `items`
ScanArrayRest(s, i, items) == ArrayValue(s, items, ScanOnce(s, i))
\* json.decoder.JSONArray: after "[" and whitespace, at j
ArrayOpen(s, j) ==
  IF j <= Len(s) /\ s[j] = "]" THEN Scanned(JList(<<>>), j + 1)
  ELSE ScanArrayRest(s, j, <<>>)

\* json.decoder.JSONObject: after a member, at j: "}" ends, "," goes on
ObjectNext(s, pairs, j) ==
  IF j > Len(s) THEN ScanError
  ELSE IF s[j] = "}" THEN Scanned(JDict(pairs), j + 1)
  ELSE IF s[j] = "," THEN ScanObjectRest(s, SkipWs(s, j + 1), pairs)
  ELSE ScanError
ObjectValue(s, pairs, key, v) ==
  IF ~v.ok THEN ScanError
  ELSE ObjectNext(s, Append(pairs, JPair(key, v.v)), SkipWs(s, v.p))
ObjectColon(s, pairs, key, c) ==
  IF c > Len(s) \/ s[c] # ":" THEN ScanError
  ELSE ObjectValue(s, pairs, key, ScanOnce(s, SkipWs(s, c + 1)))
ObjectKey(s, pairs, k) ==
  IF ~k.ok THEN ScanError ELSE ObjectColon(s, pairs, k.v.s, SkipWs(s, k.p))
\* json.decoder.JSONObject: the members from i on, after `pairs`
ScanObjectRest(s, i, pairs) ==
  IF i <= Len(s) /\ s[i] = DQ THEN ObjectKey(s, pairs, ScanString(s, i + 1))
  ELSE ScanError
\* json.decoder.JSONObject: after "{" and whitespace, at j
ObjectOpen(s, j) ==
  IF j <= Len(s) /\ s[j] = "}" THEN Scanned(JDict(<<>>), j + 1)
  ELSE ScanObjectRest(s, j, <<>>)

\* json.scanner _scan_once at i, past the string, object, array and the
\* three literals: the number match m, then NaN, Infinity and -Infinity
ScanNumberOrConstant(s, i, m) ==
  IF m.ok THEN m
  ELSE IF MatchAt(s, <<"N", "a", "N">>, i)
    THEN Scanned(JVal("float", SubSeq(s, i, i + 2), <<>>), i + 3)
  ELSE IF MatchAt(s, <<"I", "n", "f", "i", "n", "i", "t", "y">>, i)
    THEN Scanned(JVal("float", SubSeq(s, i, i + 7), <<>>), i + 8)
  ELSE IF MatchAt(s, <<"-", "I", "n", "f", "i", "n", "i", "t", "y">>, i)
    THEN Scanned(JVal("float", SubSeq(s, i, i + 8), <<>>), i + 9)
  ELSE ScanError

\* json.scanner.py_make_scanner._scan_once at i
ScanOnce(s, i) ==
  IF i > Len(s) THEN ScanError
  ELSE IF s[i] = DQ THEN ScanString(s, i + 1)
  ELSE IF s[i] = "{" THEN ObjectOpen(s, SkipWs(s, i + 1))
  ELSE IF s[i] = "[" THEN ArrayOpen(s, SkipWs(s, i + 1))
  ELSE IF MatchAt(s, JNull.s, i) THEN Scanned(JNull, i + 4)
  ELSE IF MatchAt(s, JTrue.s, i) THEN Scanned(JTrue, i + 4)
  ELSE IF MatchAt(s, JFalse.s, i) THEN Scanned(JFalse, i + 5)
  ELSE ScanNumberOrConstant(s, i, ScanNumber(s, i))

\* JSONDecoder.decode: the value v scanned after leading whitespace must
\* be followed by whitespace only
DecodeEnd(s, v) ==
  IF ~v.ok THEN ScanError
  ELSE IF SkipWs(s, v.p) # Len(s) + 1 THEN ScanError
  ELSE v

\* json.loads(s); not ok is json.JSONDecodeError
JsonLoads(s) == DecodeEnd(s, ScanOnce(s, SkipWs(s, 1)))

(***************************************************************************)
(* The texts of main.py                                                    *)
(***************************************************************************)
\* "```", main.py:255
Fence == <<BT, BT, BT>>
\* "```json", main.py:253
FenceJson == <<BT, BT, BT, "j", "s", "o", "n">>
\* "bullets", main.py:259
KeyBullets == <<"b", "u", "l", "l", "e", "t", "s">>
\* "nextStep", main.py:260
KeyNextStep == <<"n", "e", "x", "t", "S", "t", "e", "p">>
\* main.py:264 and 285
Placeholder ==
  <<"A", "d", "d", "i", "t", "i", "o", "n", "a", "l", " ", "i", "n", "f",
    "o", "r", "m", "a", "t", "i", "o", "n", " ", "n", "o", "t", " ", "a",
    "v", "a", "i", "l", "a", "b", "l", "e">>
\* main.py:260 and 271
DefaultNextStep ==
  <<"R", "e", "v", "i", "e", "w", " ", "t", "h", "e", " ", "s", "u", "m",
    "m", "a", "r", "y", " ", "a", "n", "d", " ", "t", "a", "k", "e", " ",
    "a", "p", "p", "r", "o", "p", "r", "i", "a", "t", "e", " ", "a", "c",
    "t", "i", "o", "n", ".">>
\* "next step" and "action", main.py:280
WordNextStep == <<"n", "e", "x", "t", " ", "s", "t", "e", "p">>
WordAction == <<"a", "c", "t", "i", "o", "n">>

\* the prefixes of line.startswith((...)), main.py:275
BulletMarkers ==
  {<<"-">>, <<ACIRC, EURO, CENT>>, <<"*">>, <<"1", ".">>, <<"2", ".">>,
   <<"3", ".">>, <<"4", ".">>, <<"5", ".">>}

\* the characters of line.lstrip("..."), main.py:277
MarkerChars == {"-", ACIRC, EURO, CENT, "*", ".", " "} \cup Digits

\* the number of bullets of a summary, main.py:263-265 and 284-286
RequiredBullets == 5

(***************************************************************************)
(* Exceptions.  An exception is [type, status, msg]: status is the         *)
(* status_code of an HTTPException (0 otherwise), msg its detail or, for   *)
(* another exception, its message (the type's name stands for it).         *)
(***************************************************************************)
HTTPException(status, detail) ==
  [type |-> "HTTPException", status |-> status, msg |-> detail]
Exc(type) == [type |-> type, status |-> 0, msg |-> <<type>>]

\* what a block of Python code ends in: a value, or a raised exception
Returned(v) == [raised |-> FALSE, exc |-> Exc("none"), value |-> v]
Raised(e) == [raised |-> TRUE, exc |-> e, value |-> <<>>]

\* isinstance(e, httpx.TimeoutException): httpx's ConnectTimeout, ReadTimeout,
\* WriteTimeout and PoolTimeout
IsTimeoutException(e) ==
  e.type \in {"ConnectTimeout", "ReadTimeout", "WriteTimeout", "PoolTimeout"}

\* isinstance(e, httpx.ConnectError)
IsConnectError(e) == e.type = "ConnectError"

\* str(e): starlette's HTTPException prints "<status_code>: <detail>"
StrStatus(n) ==
  IF n = 502 THEN <<"5", "0", "2">> ELSE IF n = 500 THEN <<"5", "0", "0">> ELSE <<"4", "0",
    "0">>
StrExc(e) ==
  IF e.type = "HTTPException" THEN StrStatus(e.status) \o <<":", " ">> \o e.msg
  ELSE e.msg

\* what the client receives: the status and the detail of an HTTPException,
\* or 200 and the JSON body the handler returned
ErrorResponse(e) == [status |-> e.status, detail |-> e.msg, body |-> <<>>]
OkResponse(body) == [status |-> 200, detail |-> <<>>, body |-> body]
NoResponse == [status |-> 0, detail |-> <<>>, body |-> <<>>]

\* what an awaited upstream call ends in: a response, or an exception
UpstreamResponse(status, text) ==
  [raised |-> FALSE, exc |-> Exc("none"), status |-> status, text |-> text]
UpstreamRaises(type) ==
  [raised |-> TRUE, exc |-> Exc(type), status |-> 0, text |-> <<>>]

(***************************************************************************)
(* POST /summarize: the summary normalisation, main.py:249-298             *)
(***************************************************************************)
\* dict.get(key, default): the last member with that key wins
DictAt(d, i, default) == IF i = 0 THEN default ELSE d.items[i].items[1]
DictGet(d, key, default) ==
  DictAt(d, MaxOrZero({i \in 1..Len(d.items) : d.items[i].s = key}), default)

\* a variant that takes the first fence of either kind, tag or no tag
ExtractJsonAnyFence(content) ==
  IF Contains(content, Fence)
  THEN Split(Split(content, Fence)[2], Fence)[1]
  ELSE content

\* main.py:250-256: the text handed to json.loads
ExtractJson(content) ==
  IF Contains(content, FenceJson)
  THEN Split(Split(content, FenceJson)[2], Fence)[1]
  ELSE IF Contains(content, Fence)
  THEN Split(Split(content, Fence)[2], Fence)[1]
  ELSE content

\* a variant that appends one placeholder where the loop appends them all
PadBulletsOnce(bullets) ==
  IF Len(bullets) < RequiredBullets THEN Append(bullets, JStr(Placeholder))
  ELSE bullets

\* main.py:263-264 and 284-285: while len(bullets) < 5: bullets.append(...)
PadBullets(bullets) ==
  IF Len(bullets) < RequiredBullets
  THEN bullets \o [i \in 1..(RequiredBullets - Len(bullets)) |-> JStr(Placeholder)]
  ELSE bullets

\* a variant that keeps the last five, bullets[-5:]
LastBullets(bullets) ==
  SubSeq(bullets, IF Len(bullets) < RequiredBullets THEN 1
                  ELSE Len(bullets) - RequiredBullets + 1, Len(bullets))

\* main.py:265 and 286: bullets[:5]
FirstBullets(bullets) ==
  SubSeq(bullets, 1, IF Len(bullets) < RequiredBullets THEN Len(bullets)
                     ELSE RequiredBullets)

\* main.py:263-265 on the values of main.py:259-260: the bullets and the
\* next step as Python values, or the exception the lines raise (a bullets
\* value without len(), without .append, or that cannot be sliced; a str of
\* five characters or more is sliced to a str, whose items are characters)
SummaryOf(bullets, next_step) ==
  IF bullets.t \notin {"list", "str", "dict"} THEN Raised(Exc("TypeError"))
  ELSE IF bullets.t = "list"
    THEN Returned([bullets |-> FirstBullets(PadBullets(bullets.items)),
                   next_step |-> next_step])
  ELSE IF bullets.t = "str" /\ Len(bullets.s) < RequiredBullets
    THEN Raised(Exc("AttributeError"))
  ELSE IF bullets.t = "dict" /\ Len(bullets.items) < RequiredBullets
    THEN Raised(Exc("AttributeError"))
  ELSE IF bullets.t = "dict" THEN Raised(Exc("TypeError"))
  ELSE Returned([bullets |-> [i \in 1..RequiredBullets |-> JStr(<<bullets.s[i]>>)],
                 next_step |-> next_step])

\* main.py:259-265 on the parsed value; a value that is no dict has no .get
ParsedSummary(parsed) ==
  IF parsed.t # "dict" THEN Raised(Exc("AttributeError"))
  ELSE SummaryOf(DictGet(parsed, KeyBullets, JList(<<>>)),
                 DictGet(parsed, KeyNextStep, JStr(DefaultNextStep)))

\* main.py:275: line.startswith(("-", ..., "5."))
IsBulletLine(line) == \E m \in BulletMarkers : StartsWith(line, m)

\* main.py:277: line.lstrip("-...*0123456789. ")
CleanLine(line) == LStripChars(line, MarkerChars)

\* main.py:278-279: if clean_line: bullets.append(clean_line)
AppendClean(bullets, clean_line) ==
  IF clean_line # <<>> THEN Append(bullets, JStr(clean_line)) ELSE bullets

\* main.py:280: "next step" in line.lower() or "action" in line.lower()
IsNextStepLine(line) ==
  Contains(Lower(line), WordNextStep) \/ Contains(Lower(line), WordAction)

\* main.py:281: line.split(":", 1)[-1].strip() if ":" in line else line
LastPart(parts) == parts[Len(parts)]
NextStepOf(line) ==
  IF Contains(line, <<":">>) THEN Strip(LastPart(SplitOnce(line, <<":">>)))
  ELSE line

RECURSIVE ScanLines(_, _, _)
\* main.py:274-281: the body of the loop, for the stripped line
ScanLine(line, rest, bullets, next_step) ==
  IF IsBulletLine(line)
  THEN ScanLines(rest, AppendClean(bullets, CleanLine(line)), next_step)
  ELSE IF IsNextStepLine(line)
  THEN ScanLines(rest, bullets, JStr(NextStepOf(line)))
  ELSE ScanLines(rest, bullets, next_step)

\* main.py:273-281: the loop over the lines, from bullets and next_step so far
ScanLines(lines, bullets, next_step) ==
  IF Len(lines) = 0 THEN [bullets |-> bullets, next_step |-> next_step]
  ELSE ScanLine(Strip(Head(lines)), Tail(lines), bullets, next_step)

\* main.py:283-286 on what the loop found
FallbackOf(scanned) ==
  [bullets |-> FirstBullets(PadBullets(scanned.bullets)),
   next_step |-> scanned.next_step]

\* main.py:267-286: the except json.JSONDecodeError branch
FallbackSummary(content) ==
  FallbackOf(ScanLines(Split(Strip(content), <<NL>>), <<>>, JStr(DefaultNextStep)))

\* main.py:258-286 on the extracted text and what json.loads made of it
ParseOrFallback(extracted, parsed) ==
  IF parsed.ok THEN ParsedSummary(parsed.v)
  ELSE Returned(FallbackSummary(extracted))
NormalizeExtracted(extracted) ==
  ParseOrFallback(extracted, JsonLoads(Strip(extracted)))

\* main.py:250-286: the inner try block and its except clause
NormalizeSummary(content) == NormalizeExtracted(ExtractJson(content))

\* str(v) of a number or a bool; the digits Python prints for a float are
\* not computed (nothing reads them): the text is a tag and the number as
\* written
PyStr(v) ==
  IF v.t = "bool" THEN (IF v = JTrue THEN <<"T", "r", "u", "e">>
                        ELSE <<"F", "a", "l", "s", "e">>)
  ELSE IF v.t = "int" THEN (IF v.s = <<"-", "0">> THEN <<"0">> ELSE v.s)
  ELSE <<"float">> \o v.s

\* pydantic's validation of a value for a field declared str (BulletPoint.text,
\* SummaryResponse.nextStep, main.py:41-49): a str passes; a number passes as
\* its str() where pydantic coerces (version 1) and fails where it does not
\* (version 2); anything else fails
StrField(v, coerces) ==
  IF v.t = "str" THEN Returned(v.s)
  ELSE IF coerces /\ v.t \in {"int", "float", "bool"} THEN Returned(PyStr(v))
  ELSE Raised(Exc("ValidationError"))

\* main.py:289-298 on the validated texts: the BulletPoint objects, their
\* ids the next uuids after `ids`, and the SummaryResponse
SummaryResponseFrom(texts, next, ids) ==
  IF \E i \in DOMAIN texts : texts[i].raised THEN Raised(Exc("ValidationError"))
  ELSE IF next.raised THEN Raised(Exc("ValidationError"))
  ELSE Returned([success |-> TRUE,
                 bullets |-> [i \in DOMAIN texts |-> [id |-> ids + i, text |-> texts[i].value]],
                 nextStep |-> next.value])

\* main.py:289-298
SummaryResponseOf(summary, coerces, ids) ==
  SummaryResponseFrom([i \in DOMAIN summary.bullets |-> StrField(summary.bullets[i], coerces)],
                      StrField(summary.next_step, coerces), ids)

(***************************************************************************)
(* POST /transcribe, main.py:99-185                                        *)
(***************************************************************************)
\* main.py:114
allowed_extensions ==
  {<<".", "w", "a", "v">>, <<".", "m", "p", "3">>,
   <<".", "m", "4", "a">>, <<".", "w", "e", "b", "m">>,
   <<".", "o", "g", "g">>, <<".", "f", "l", "a", "c">>,
   <<".", "a", "a", "c">>}

\* a variant for which a name that starts with its only dot has a suffix
SuffixAtAnyDot(name, last) ==
  IF last = 0 \/ last = Len(name) THEN <<>> ELSE From(name, last)

\* pathlib's PurePath.suffix of a name without a directory part: from the
\* last dot, unless there is none or it is the first or the last character
SuffixAt(name, last) ==
  IF last = 0 \/ last = 1 \/ last = Len(name) THEN <<>> ELSE From(name, last)
Suffix(name) == SuffixAt(name, MaxOrZero({i \in 1..Len(name) : name[i] = "."}))

\* main.py:115: Path(file.filename).suffix.lower() if file.filename else "";
\* an upload without a filename is the empty name
FileExt(filename) == IF filename = <<>> THEN <<>> ELSE Lower(Suffix(filename))

\* main.py:108-111 and 195-198
GroqNotConfigured ==
  HTTPException(500,
    <<"G", "r", "o", "q", " ", "A", "P", "I", " ", "n", "o", "t", " ", "c",
    "o", "n", "f", "i", "g", "u", "r", "e", "d", ".", " ", "P", "l", "e",
    "a", "s", "e", " ", "s", "e", "t", " ", "G", "R", "O", "Q", "_", "A",
    "P", "I", "_", "K", "E", "Y", " ", "e", "n", "v", "i", "r", "o", "n",
    "m", "e", "n", "t", " ", "v", "a", "r", "i", "a", "b", "l", "e", ".">>)

\* main.py:118-121 (the detail goes on with the formats, in set order,
\* which the model leaves out)
UnsupportedFormat ==
  HTTPException(400, <<"U", "n", "s", "u", "p", "p", "o", "r", "t", "e",
    "d", " ", "f", "i", "l", "e", " ", "f", "o", "r", "m", "a", "t", ".",
    " ", "A", "l", "l", "o", "w", "e", "d", " ", "f", "o", "r", "m", "a",
    "t", "s", ":", " ">>)

\* main.py:164-170: result.get("text", "").strip() and the JSONResponse
TranscriptionOf(text) ==
  IF text.t # "str" THEN Raised(Exc("AttributeError"))
  ELSE Returned([success |-> TRUE, transcription |-> Strip(text.s),
                 language |-> <<"e", "n">>])

\* main.py:163-170 on what response.json() made of the body
TranscriptionFrom(result) ==
  IF ~result.ok THEN Raised(Exc("JSONDecodeError"))
  ELSE IF result.v.t # "dict" THEN Raised(Exc("AttributeError"))
  ELSE TranscriptionOf(DictGet(result.v, <<"t", "e", "x", "t">>, JStr(<<>>)))

\* main.py:157-170: the try block after os.unlink, on the upstream response
TranscribeResult(response) ==
  IF response.status # 200
  THEN Raised(HTTPException(502, <<"G", "r", "o", "q", " ", "W", "h", "i",
    "s", "p", "e", "r", " ", "A", "P", "I", " ", "e", "r", "r", "o", "r",
    ":", " ">> \o response.text))
  ELSE TranscriptionFrom(JsonLoads(response.text))

\* main.py:155 and 180: os.unlink(temp_file_path)
Unlink(files, path) == {f \in files : f.name # path}

\* main.py:172-185: the except clauses of transcribe_audio, for exception e
\* raised with temp_file_path bound to `path` (0: not bound) and the files
\* `files` in the store.  The response, and the store afterwards.
TranscribeExcept(e, path, files) ==
  IF IsTimeoutException(e)
  THEN [resp |-> ErrorResponse(HTTPException(504,
                   <<"T", "r", "a", "n", "s", "c", "r", "i", "p", "t", "i",
    "o", "n", " ", "t", "i", "m", "e", "d", " ", "o", "u", "t", ".", " ",
    "P", "l", "e", "a", "s", "e", " ", "t", "r", "y", " ", "w", "i", "t",
    "h", " ", "a", " ", "s", "h", "o", "r", "t", "e", "r", " ", "a", "u",
    "d", "i", "o", " ", "f", "i", "l", "e", ".">>)),
        files |-> files]
  ELSE [resp |-> ErrorResponse(HTTPException(500,
                   <<"T", "r", "a", "n", "s", "c", "r", "i", "p", "t", "i",
    "o", "n", " ", "f", "a", "i", "l", "e", "d", ":", " ">> \o StrExc(e))),
        files |-> IF path # 0 /\ \E f \in files : f.name = path
                  THEN Unlink(files, path)
                  ELSE files]

\* main.py:155-185 on a response: the store after os.unlink, and what the
\* rest of the try block ended in
TranscribeReturn(result, path, unlinked) ==
  IF result.raised THEN TranscribeExcept(result.exc, path, unlinked)
  ELSE [resp |-> OkResponse(result.value), files |-> unlinked]

\* main.py:147-185 from the end of the awaited post: the response of the
\* handler and the store afterwards
TranscribeReply(upstream, path, files) ==
  IF upstream.raised THEN TranscribeExcept(upstream.exc, path, files)
  ELSE TranscribeReturn(TranscribeResult(upstream), path, Unlink(files, path))

(***************************************************************************)
(* POST /summarize, main.py:188-309                                        *)
(***************************************************************************)
\* a 200 body that response.json() or result["choices"][0]["message"]
\* ["content"] rejects; no model text is this text
MalformedCompletion == <<"malformed">>

\* main.py:288-298 on what the normalisation ended in
ValidateSummary(summary, coerces, ids) ==
  IF summary.raised THEN summary
  ELSE SummaryResponseOf(summary.value, coerces, ids)

\* main.py:240-298: the try block from the upstream response on; the text
\* of a 200 response is the content of the chat completion
SummarizeResult(response, coerces, ids) ==
  IF response.status # 200
  THEN Raised(HTTPException(502, <<"G", "r", "o", "q", " ", "A", "P", "I",
    " ", "e", "r", "r", "o", "r", ":", " ">> \o response.text))
  ELSE IF response.text = MalformedCompletion THEN Raised(Exc("KeyError"))
  ELSE ValidateSummary(NormalizeSummary(response.text), coerces, ids)

\* main.py:300-309: the except clauses of summarize_transcription
SummarizeExcept(e) ==
  IF IsConnectError(e)
  THEN ErrorResponse(HTTPException(503,
         <<"C", "a", "n", "n", "o", "t", " ", "c", "o", "n", "n", "e", "c",
    "t", " ", "t", "o", " ", "G", "r", "o", "q", " ", "A", "P", "I", ".",
    " ", "P", "l", "e", "a", "s", "e", " ", "c", "h", "e", "c", "k", " ",
    "y", "o", "u", "r", " ", "i", "n", "t", "e", "r", "n", "e", "t", " ",
    "c", "o", "n", "n", "e", "c", "t", "i", "o", "n", ".">>))
  ELSE ErrorResponse(HTTPException(500, <<"S", "u", "m", "m", "a", "r",
    "i", "z", "a", "t", "i", "o", "n", " ", "f", "a", "i", "l", "e", "d",
    ":", " ">> \o StrExc(e)))

\* main.py:294-309 on what the try block ended in
SummarizeReturn(result) ==
  IF result.raised THEN SummarizeExcept(result.exc) ELSE OkResponse(result.value)

\* main.py:200-309 from the end of the awaited post: the response of the
\* handler to what the upstream call ended in
SummarizeReply(upstream, coerces, ids) ==
  IF upstream.raised THEN SummarizeExcept(upstream.exc)
  ELSE SummarizeReturn(SummarizeResult(upstream, coerces, ids))

(***************************************************************************)
(* POST /send-email, main.py:312-457                                       *)
(***************************************************************************)
\* main.py:319-322
ResendNotConfigured ==
  HTTPException(500,
    <<"E", "m", "a", "i", "l", " ", "s", "e", "r", "v", "i", "c", "e", " ",
    "n", "o", "t", " ", "c", "o", "n", "f", "i", "g", "u", "r", "e", "d",
    ".", " ", "P", "l", "e", "a", "s", "e", " ", "s", "e", "t", " ", "R",
    "E", "S", "E", "N", "D", "_", "A", "P", "I", "_", "K", "E", "Y", " ",
    "e", "n", "v", "i", "r", "o", "n", "m", "e", "n", "t", " ", "v", "a",
    "r", "i", "a", "b", "l", "e", ".">>)

\* str(x) of an Optional[str] in an f-string: None prints as "None"
StrOptional(x) == IF x.some THEN x.s ELSE <<"N", "o", "n", "e">>
\* bool(x) of an Optional[str]: None and "" are false
Truthy(x) == x.some /\ x.s # <<>>
None == [some |-> FALSE, s |-> <<>>]
Some(s) == [some |-> TRUE, s |-> s]

\* main.py:326: the <li> lines of the HTML body
BulletsHtml(bullets) ==
  Join([i \in 1..Len(bullets) |-> <<"<", "l", "i", ">">> \o bullets[i].text \o <<"<",
    "/", "l", "i", ">">>],
       <<NL>>)

\* main.py:418: the lines of the plain-text body
BulletsText(bullets) ==
  Join([i \in 1..Len(bullets) |-> <<ACIRC, EURO, CENT, " ">> \o bullets[i].text],
       <<NL>>)

\* main.py:432-443: the params handed to resend.Emails.send; html and text
\* are the parts of the two templates that vary with the request
EmailParams(req) ==
  [from |-> <<"V", "o", "i", "c", "e", "M", "a", "i", "l", " ", "A", "I",
    " ", "<", "o", "n", "b", "o", "a", "r", "d", "i", "n", "g", "@", "r",
    "e", "s", "e", "n", "d", ".", "d", "e", "v", ">">>,
   to |-> <<req.to>>,
   subject |-> req.subject,
   html |-> <<BulletsHtml(req.bullets), req.nextStep>>,
   text |-> <<BulletsText(req.bullets), req.nextStep>>,
   scheduled_at |-> IF req.isScheduled /\ Truthy(req.scheduledTime)
                    THEN req.scheduledTime ELSE None]

\* main.py:449: the message of the EmailResponse
EmailMessage(req) ==
  IF ~req.isScheduled THEN <<"E", "m", "a", "i", "l", " ", "s", "e", "n",
    "t", " ", "s", "u", "c", "c", "e", "s", "s", "f", "u", "l", "l", "y",
    "!">>
  ELSE <<"E", "m", "a", "i", "l", " ", "s", "c", "h", "e", "d", "u", "l",
    "e", "d", " ", "f", "o", "r", " ">> \o StrOptional(req.scheduledTime)

\* main.py:445-457: the response to what resend.Emails.send ended in: a
\* dict (id = Some(...) or None for a dict without "id"), another object
\* (text its str()), or an exception
SendEmailReply(req, sent) ==
  IF sent.raised
  THEN ErrorResponse(HTTPException(500, <<"F", "a", "i", "l", "e", "d",
    " ", "t", "o", " ", "s", "e", "n", "d", " ", "e", "m", "a", "i", "l",
    ":", " ">> \o StrExc(sent.exc)))
  ELSE OkResponse([success |-> TRUE,
                   message |-> EmailMessage(req),
                   emailId |-> IF sent.value.isdict THEN sent.value.id
                               ELSE Some(sent.value.str)])

(***************************************************************************)
(* Bounds and inputs                                                       *)
(***************************************************************************)
\* requests, over all three endpoints, each answered once
MaxReq == 2
\* bullets of a generated JSON summary
MaxBullets == 6
\* lines of a generated non-JSON text
MaxLines == 2
\* characters of a generated raw text
MaxRaw == 3
\* pieces of a generated fenced text
MaxPieces == 3

Requests == 1..MaxReq

\* file.filename of an upload; <<>> is an upload without a filename
Filenames ==
  {<<>>, <<"a", ".", "w", "a", "v">>, <<"a", ".", "W", "A", "V">>,
   <<"a", ".", "t", "x", "t">>, <<"w", "a", "v">>,
   <<".", "w", "a", "v">>, <<"a", ".", "w", "a", "v", ".", "t", "x", "t">>, <<"a", ".">>}

\* what the awaited post to the Whisper endpoint ends in
WhisperReplies ==
  {UpstreamResponse(200, <<"{", DQ, "t", "e", "x", "t", DQ, ":", " ", DQ,
    " ", "h", "i", " ", DQ, "}">>),
   UpstreamResponse(200, <<"{", "}">>),
   UpstreamResponse(200, <<"[", "]">>),
   UpstreamResponse(200, <<"o", "o", "p", "s">>),
   UpstreamResponse(401, <<"b", "a", "d", " ", "k", "e", "y">>),
   UpstreamResponse(500, <<"o", "o", "p", "s">>),
   UpstreamRaises("ReadTimeout"),
   UpstreamRaises("ConnectTimeout"),
   UpstreamRaises("ConnectError"),
   UpstreamRaises("RuntimeError")}

\* json.dumps of a value of the model, the way Python writes it
RECURSIVE JsonDumps(_)
JsonDumps(v) ==
  IF v.t = "str" THEN <<DQ>> \o v.s \o <<DQ>>
  ELSE IF v.t = "list"
    THEN <<"[">> \o Join([i \in 1..Len(v.items) |-> JsonDumps(v.items[i])], <<
    ",", " ">>)
         \o <<"]">>
  ELSE IF v.t = "dict"
    THEN <<"{">> \o Join([i \in 1..Len(v.items) |->
                           <<DQ>> \o v.items[i].s \o <<DQ>> \o <<":", " ">>
                           \o JsonDumps(v.items[i].items[1])], <<",", " ">>)
         \o <<"}">>
  ELSE v.s

\* bullet strings of generated summaries
Words == {<<"a">>, <<"b">>}
WordLists == UNION {[1..n -> {JStr(w) : w \in Words}] : n \in 0..MaxBullets}

\* values of "bullets" and of "nextStep" in generated summaries
BulletsValues ==
  {JList(l) : l \in WordLists}
  \cup {JNull, JInt(<<"3">>), JStr(<<"a", "b", "c">>), JStr(<<"a", "b", "c", "d",
    "e", "f", "g">>),
        JList(<<JInt(<<"3">>)>>), JList(<<JStr(<<"a">>), JNull>>), JDict(<<>>),
        JList(<<JStr(<<"r", "u", "n", " ", BT, BT, BT, "l", "s", BT, BT, BT>>)>>)}
NextStepValues == {JStr(<<"x">>), JNull, JInt(<<"-", "0">>)}

\* model texts that are JSON
JsonTexts ==
  {JsonDumps(JDict(b \o n)) :
     b \in {<<>>} \cup {<<JPair(KeyBullets, v)>> : v \in BulletsValues},
     n \in {<<>>} \cup {<<JPair(KeyNextStep, v)>> : v \in NextStepValues}}
  \cup {JsonDumps(v) : v \in {JList(<<>>), JList(<<JStr(<<"a">>)>>), JInt(<<"1">>),
                              JStr(<<"a">>), JNull, JTrue}}

\* the texts of a set of pieces put one after the other, up to n pieces
RECURSIVE Concats(_, _)
Concats(pieces, n) ==
  IF n = 0 THEN {<<>>}
  ELSE LET shorter == Concats(pieces, n - 1)
       IN  shorter \cup {s \o p : s \in shorter, p \in pieces}

\* model texts that are lines of prose, bullets and next steps
LineVocabulary ==
  {<<"-", " ", "f", "o", "o">>, <<"*", " ", "b", "a", "r">>,
   <<"N", "e", "x", "t", " ", "s", "t", "e", "p", ":", " ", "d", "o", " ",
    "X">>,
   <<BULLET, " ", "b">>, <<ACIRC, EURO, CENT, " ", "c">>,
   <<"-", " ", "3", " ", "a">>, <<"2", ".", " ", "d">>, <<"6", ".", " ", "e">>,
   <<"-", " ", "a", "c", "t", "i", "o", "n", ":", " ", "g", "o">>,
   <<"A", "c", "t", "i", "o", "n", " ", "n", "o", "w">>, <<"n", "o", "t", "e">>, <<"-">>}
LineTexts ==
  {Join(ls, <<NL>>) : ls \in UNION {[1..n -> LineVocabulary] : n \in 0..MaxLines}}

\* model texts of a few characters
RawAlphabet == {BT, "{", "}", "[", "]", "1", "-", DQ}
RawTexts == UNION {[1..n -> RawAlphabet] : n \in 0..MaxRaw}

\* model texts with code fences: blocks, tagged json or not, closed or not,
\* and what may stand between them
FenceDocs ==
  {<<"{", DQ, "b", "u", "l", "l", "e", "t", "s", DQ, ":", " ", "[", DQ,
    "a", DQ, "]", "}">>,
   <<"{", DQ, "n", "e", "x", "t", "S", "t", "e", "p", DQ, ":", " ", DQ,
    "x", DQ, "}">>,
   <<"-", " ", "b">>}
FencePieces ==
  {open \o <<NL>> \o doc \o <<NL>> \o Fence : open \in {Fence, FenceJson}, doc \in FenceDocs}
  \cup {Fence, FenceJson, <<NL>>, <<"{", DQ, "b", "u", "l", "l", "e", "t",
    "s", DQ, ":", " ", "[", DQ, "b", DQ, "]", "}">>}
FenceTexts == Concats(FencePieces, MaxPieces)

\* the texts a chat completion carries in the model
ModelTexts == JsonTexts \cup LineTexts \cup RawTexts \cup FenceTexts

\* the few of them the handlers are run on
CoreTexts ==
  {<<"{", DQ, "b", "u", "l", "l", "e", "t", "s", DQ, ":", " ", "[", DQ,
    "a", DQ, ",", " ", DQ, "b", DQ, "]", ",", " ", DQ, "n", "e", "x", "t",
    "S", "t", "e", "p", DQ, ":", " ", DQ, "x", DQ, "}">>,
   <<BT, BT, BT, "j", "s", "o", "n", NL, "{", DQ, "b", "u", "l", "l", "e",
    "t", "s", DQ, ":", " ", "[", DQ, "a", DQ, ",", " ", DQ, "b", DQ, ",",
    " ", DQ, "a", DQ, ",", " ", DQ, "b", DQ, ",", " ", DQ, "a", DQ, ",",
    " ", DQ, "b", DQ, ",", " ", DQ, "a", DQ, "]", "}", NL, BT, BT, BT>>,
   <<"-", " ", "f", "o", "o", NL, "*", " ", "b", "a", "r", NL, "N", "e",
    "x", "t", " ", "s", "t", "e", "p", ":", " ", "d", "o", " ", "X">>,
   <<"[", "]">>,
   <<>>}

\* what the awaited post to the chat endpoint ends in
ChatReplies(texts) ==
  {UpstreamResponse(200, t) : t \in texts}
  \cup {UpstreamResponse(200, MalformedCompletion),
        UpstreamResponse(429, <<"s", "l", "o", "w", " ", "d", "o", "w", "n">>),
        UpstreamRaises("ReadTimeout"),
        UpstreamRaises("ConnectError"),
        UpstreamRaises("RuntimeError")}

\* request.transcription of POST /summarize
Transcriptions == {<<"h", "i">>}

\* the bodies of POST /send-email
EmailBullets == {<<[id |-> 1, text |-> <<"a">>], [id |-> 2, text |-> <<"b">>]>>}
ScheduledTimes == {None, Some(<<>>), Some(<<"2", "0", "2", "6", "-", "0",
    "1", "-", "0", "1", "T", "0", "9", ":", "0", "0">>)}
EmailRequests ==
  {[to |-> <<"a", "@", "b", ".", "c">>, subject |-> <<"H", "i">>, bullets |-> b,
    nextStep |-> <<"x">>, isScheduled |-> s, scheduledTime |-> t] :
     b \in EmailBullets, s \in BOOLEAN, t \in ScheduledTimes}

\* what resend.Emails.send ends in: a dict with an id, another object, or
\* an exception
SendOutcomes ==
  {Returned([isdict |-> TRUE, id |-> Some(<<"e", "1">>), str |-> <<>>]),
   Returned([isdict |-> FALSE, id |-> None, str |-> <<"e", "2">>]),
   Raised(Exc("ResendError"))}

(***************************************************************************)
(* State                                                                   *)
(***************************************************************************)
VARIABLES
  GROQ_API_KEY,      \* main.py:26: whether the key is set (not empty)
  RESEND_API_KEY,    \* main.py:33: whether the key is set (not empty)
  pydantic_coerces,  \* whether the installed pydantic coerces numbers to str
  pc,                \* per request: "new", "transcribing", "summarizing", "done"
  request,           \* per request: the endpoint and what was posted to it
  temp_file_path,    \* per request: the local of transcribe_audio, 0 = not bound
  created,           \* per request: the temporary file it created, 0 = none
  tempfiles,         \* the temporary files in storage: [name, owner]
  posted,            \* the requests whose handler posted to the Groq API
  emails,            \* per request: the params handed to resend.Emails.send
  replied,           \* per request: what its upstream call ended in
  response,          \* per request: the response of the handler
  uuids,             \* how many uuid4 values were drawn
  norm_pc,           \* the normalisation on its own: "new" or "done"
  norm_content,      \*   the model text it was run on
  norm_extracted,    \*   the text it handed to json.loads
  norm_response      \*   the response of /summarize to that text

vars ==
  <<GROQ_API_KEY, RESEND_API_KEY, pydantic_coerces, pc, request, temp_file_path,
    created, tempfiles, posted, emails, replied, response, uuids, norm_pc,
    norm_content, norm_extracted, norm_response>>

config == <<GROQ_API_KEY, RESEND_API_KEY, pydantic_coerces>>
norm == <<norm_pc, norm_content, norm_extracted, norm_response>>

NoRequest == [endpoint |-> "none", body |-> <<>>]
NoEmail == [sent |-> FALSE, params |-> <<>>]
NoReply == UpstreamResponse(0, <<>>)

Init ==
  /\ GROQ_API_KEY \in BOOLEAN
  /\ RESEND_API_KEY \in BOOLEAN
  /\ pydantic_coerces \in BOOLEAN
  /\ pc = [r \in Requests |-> "new"]
  /\ request = [r \in Requests |-> NoRequest]
  /\ temp_file_path = [r \in Requests |-> 0]
  /\ created = [r \in Requests |-> 0]
  /\ tempfiles = {}
  /\ posted = {}
  /\ emails = [r \in Requests |-> NoEmail]
  /\ replied = [r \in Requests |-> NoReply]
  /\ response = [r \in Requests |-> NoResponse]
  /\ uuids = 0
  /\ norm_pc = "new"
  /\ norm_content = <<>>
  /\ norm_extracted = <<>>
  /\ norm_response = NoResponse

\* the handler of request r returns (or raises the HTTPException of) resp
Answer(r, resp) ==
  /\ pc' = [pc EXCEPT ![r] = "done"]
  /\ response' = [response EXCEPT ![r] = resp]

(***************************************************************************)
(* POST /transcribe                                                        *)
(***************************************************************************)
\* main.py:128-130: tempfile.NamedTemporaryFile(delete=False) makes a file
\* under a name no file has; the name of the file of request r is r
NewTempFile(r) == [name |-> r, owner |-> r]

\* the handler of request r ends with the response and the store of `out`
TranscribeAnswer(r, out) ==
  /\ tempfiles' = out.files
  /\ Answer(r, out.resp)

\* main.py:107-152: transcribe_audio up to the awaited client.post
TranscribeStart(r) ==
  /\ pc[r] = "new"
  /\ \E filename \in Filenames :
       /\ request' = [request EXCEPT ![r] = [endpoint |-> "transcribe", body |-> filename]]
       /\ IF ~GROQ_API_KEY
          THEN /\ Answer(r, ErrorResponse(GroqNotConfigured))
               /\ UNCHANGED <<temp_file_path, created, tempfiles, posted>>
          ELSE IF FileExt(filename) \notin allowed_extensions
          THEN /\ Answer(r, ErrorResponse(UnsupportedFormat))
               /\ UNCHANGED <<temp_file_path, created, tempfiles, posted>>
          ELSE /\ created' = [created EXCEPT ![r] = NewTempFile(r).name]
               /\ tempfiles' = tempfiles \cup {NewTempFile(r)}
               /\ temp_file_path' = [temp_file_path EXCEPT ![r] = NewTempFile(r).name]
               /\ posted' = posted \cup {r}
               /\ pc' = [pc EXCEPT ![r] = "transcribing"]
               /\ UNCHANGED response
  /\ UNCHANGED <<config, emails, replied, uuids, norm>>

\* main.py:147-185: transcribe_audio from the end of the awaited post
TranscribeFinish(r) ==
  /\ pc[r] = "transcribing"
  /\ \E upstream \in WhisperReplies :
       /\ replied' = [replied EXCEPT ![r] = upstream]
       /\ TranscribeAnswer(r, TranscribeReply(upstream, temp_file_path[r], tempfiles))
  /\ UNCHANGED <<config, request, temp_file_path, created, posted, emails, uuids, norm>>

(***************************************************************************)
(* POST /summarize                                                         *)
(***************************************************************************)
\* main.py:194-238: summarize_transcription up to the awaited client.post
SummarizeStart(r) ==
  /\ pc[r] = "new"
  /\ \E transcription \in Transcriptions :
       request' = [request EXCEPT ![r] = [endpoint |-> "summarize", body |-> transcription]]
  /\ IF ~GROQ_API_KEY
     THEN /\ Answer(r, ErrorResponse(GroqNotConfigured))
          /\ UNCHANGED posted
     ELSE /\ posted' = posted \cup {r}
          /\ pc' = [pc EXCEPT ![r] = "summarizing"]
          /\ UNCHANGED response
  /\ UNCHANGED <<config, temp_file_path, created, tempfiles, emails, replied, uuids, norm>>

\* the handler of request r ends with resp; a returned SummaryResponse
\* has drawn a uuid4 for each of its bullets
SummarizeAnswer(r, resp) ==
  /\ Answer(r, resp)
  /\ uuids' = IF resp.status = 200 THEN uuids + Len(resp.body.bullets) ELSE uuids

\* main.py:240-309: summarize_transcription from the end of the awaited post
SummarizeFinish(r) ==
  /\ pc[r] = "summarizing"
  /\ \E upstream \in ChatReplies(CoreTexts) :
       /\ replied' = [replied EXCEPT ![r] = upstream]
       /\ SummarizeAnswer(r, SummarizeReply(upstream, pydantic_coerces, uuids))
  /\ UNCHANGED <<config, request, temp_file_path, created, tempfiles, posted, emails, norm>>

(***************************************************************************)
(* POST /send-email: the handler awaits nothing, so it is one step         *)
(***************************************************************************)
SendEmail(r) ==
  /\ pc[r] = "new"
  /\ \E req \in EmailRequests, sent \in SendOutcomes :
       /\ request' = [request EXCEPT ![r] = [endpoint |-> "send-email", body |-> req]]
       /\ IF ~RESEND_API_KEY
          THEN /\ Answer(r, ErrorResponse(ResendNotConfigured))
               /\ UNCHANGED emails
          ELSE /\ emails' = [emails EXCEPT ![r] = [sent |-> TRUE, params |-> EmailParams(req)]]
               /\ Answer(r, SendEmailReply(req, sent))
  /\ UNCHANGED <<config, temp_file_path, created, tempfiles, posted, replied, uuids, norm>>

(***************************************************************************)
(* The normalisation on its own: /summarize answering one completion       *)
(***************************************************************************)
Normalize ==
  /\ norm_pc = "new"
  /\ \E text \in ModelTexts :
       /\ norm_content' = text
       /\ norm_extracted' = ExtractJson(text)
       /\ norm_response' = SummarizeReply(UpstreamResponse(200, text), pydantic_coerces, 0)
  /\ norm_pc' = "done"
  /\ UNCHANGED <<config, pc, request, temp_file_path, created, tempfiles, posted,
                 emails, replied, response, uuids>>

(***************************************************************************)
(* Specifications                                                          *)
(***************************************************************************)
Next ==
  \E r \in Requests :
    \/ TranscribeStart(r)
    \/ TranscribeFinish(r)
    \/ SummarizeStart(r)
    \/ SummarizeFinish(r)
    \/ SendEmail(r)

\* the server: requests of the three endpoints, interleaved at their awaits
Spec == Init /\ [][Next]_vars

NextTranscribe == \E r \in Requests : TranscribeStart(r) \/ TranscribeFinish(r)

\* POST /transcribe alone: concurrent uploads and the temporary files
SpecTranscribe == Init /\ [][NextTranscribe]_vars

\* the normalisation runs in a server whose Groq key is set
InitNormalize == Init /\ GROQ_API_KEY /\ RESEND_API_KEY

\* the summary normalisation, over every model text
SpecNormalize == InitNormalize /\ [][Normalize]_vars

(***************************************************************************)
(* Properties                                                              *)
(***************************************************************************)
Done(r) == pc[r] = "done"
Transcribes(r) == Done(r) /\ request[r].endpoint = "transcribe"
Summarizes(r) == Done(r) /\ request[r].endpoint = "summarize"
SendsEmail(r) == Done(r) /\ request[r].endpoint = "send-email"
NormDone == norm_pc = "done"
NormSucceeds == NormDone /\ norm_response.status = 200

\* the bullet texts of a success response of /summarize
BulletTexts(resp) == [i \in DOMAIN resp.body.bullets |-> resp.body.bullets[i].text]

\* C1: when the handler of a /transcribe request that made a temporary file
\* has returned, whatever the upstream call ended in and whatever other
\* requests are running, that file no longer exists.
C1_TempFileRemoved ==
  \A r \in Requests :
    Transcribes(r) /\ created[r] # 0 =>
      ~(\E f \in tempfiles : f.name = created[r])

\* C2: the normalisation never fails: whatever text the model returned, the
\* request ends in a success response.
C2_NormalizationNeverFails == NormDone => norm_response.status = 200

\* an upstream answer with a status other than 200
UpstreamRefused(r) == ~replied[r].raised /\ replied[r].status \notin {0, 200}

\* C3: when the upstream service answers with a status other than 200,
\* /transcribe and /summarize answer 502 with a detail that carries the
\* upstream body.
C3_UpstreamErrorIs502 ==
  \A r \in Requests :
    (Transcribes(r) \/ Summarizes(r)) /\ UpstreamRefused(r) =>
      /\ response[r].status = 502
      /\ Contains(response[r].detail, replied[r].text)

UpstreamTimedOut(r) ==
  replied[r].raised /\ replied[r].exc.type \in {"ReadTimeout", "ConnectTimeout"}
UpstreamUnreachable(r) == replied[r].raised /\ replied[r].exc.type = "ConnectError"

\* C4: on both /transcribe and /summarize an upstream timeout is answered
\* 504 and an unreachable upstream 503.
C4_StatusByFailureClass ==
  \A r \in Requests :
    Transcribes(r) \/ Summarizes(r) =>
      /\ UpstreamTimedOut(r) => response[r].status = 504
      /\ UpstreamUnreachable(r) => response[r].status = 503

IsText(x) == x \in Seq(STRING)
IsBulletPoint(b) == DOMAIN b = {"id", "text"} /\ IsText(b.text)
HasFiveBullets(body) ==
  /\ Len(body.bullets) = 5
  /\ \A i \in 1..Len(body.bullets) : IsBulletPoint(body.bullets[i])
  /\ \A i, j \in 1..Len(body.bullets) : body.bullets[i].id = body.bullets[j].id => i = j
  /\ IsText(body.nextStep)

\* C5: every success response of /summarize has exactly 5 bullets, each an
\* id and a text, and one nextStep string, whatever text the model returned.
C5_FiveBullets == NormSucceeds => HasFiveBullets(norm_response.body)

\* a text that is no JSON was answered with five bullets, placeholders among them
C5_Witness ==
  /\ NormSucceeds
  /\ ~JsonLoads(Strip(norm_extracted)).ok
  /\ HasFiveBullets(norm_response.body)
  /\ norm_response.body.bullets[5].text = Placeholder
  /\ norm_response.body.bullets[1].text # Placeholder

\* the uploads whose extension is none of the seven (compared without case):
\* no filename, no extension, another extension
UnsupportedUploads ==
  {<<>>, <<"a", ".", "t", "x", "t">>, <<"w", "a", "v">>, <<".", "w", "a", "v">>,
   <<"a", ".", "w", "a", "v", ".", "t", "x", "t">>, <<"a", ".">>}
NothingStored(r) == created[r] = 0 /\ ~(\E f \in tempfiles : f.owner = r)
NothingForwarded(r) == r \notin posted

\* C6, as stated: an upload with an unsupported extension is answered 400,
\* no temporary file is made for it and nothing is sent upstream.
C6_UnsupportedIs400 ==
  \A r \in Requests :
    Transcribes(r) /\ request[r].body \in UnsupportedUploads =>
      response[r].status = 400 /\ NothingStored(r) /\ NothingForwarded(r)

\* C6, amended: an upload with an unsupported extension is answered 400 when
\* the Groq key is set and 500 when it is not; in both cases no temporary
\* file is made for it and nothing is sent upstream.
C6_UnsupportedIsRejected ==
  \A r \in Requests :
    Transcribes(r) /\ request[r].body \in UnsupportedUploads =>
      /\ response[r].status = IF GROQ_API_KEY THEN 400 ELSE 500
      /\ NothingStored(r)
      /\ NothingForwarded(r)

\* an unsupported upload was answered 400 while another upload of a
\* supported format was forwarded
C6_Witness ==
  \E r, q \in Requests :
    /\ Transcribes(r) /\ request[r].body \in UnsupportedUploads
    /\ response[r].status = 400
    /\ q \in posted

\* a member a JSON object does not have
Absent == JVal("absent", <<>>, <<>>)
BulletsMember(p) == DictGet(p.v, KeyBullets, Absent)
NextStepMember(p) == DictGet(p.v, KeyNextStep, Absent)

\* p is the parse of a JSON object with a list of bullet strings and a
\* nextStep string (or none)
IsSummaryObject(p) ==
  /\ p.ok
  /\ p.v.t = "dict"
  /\ BulletsMember(p).t = "list"
  /\ \A i \in 1..Len(BulletsMember(p).items) : BulletsMember(p).items[i].t = "str"
  /\ NextStepMember(p).t \in {"str", "absent"}

\* the first min(n, 5) of the bullets, then placeholders
ExpectedBullets(items) ==
  [i \in 1..5 |-> IF i <= Len(items) THEN items[i].s
                  ELSE <<"A", "d", "d", "i", "t", "i", "o", "n", "a", "l",
    " ", "i", "n", "f", "o", "r", "m", "a", "t", "i", "o", "n", " ", "n",
    "o", "t", " ", "a", "v", "a", "i", "l", "a", "b", "l", "e">>]
ExpectedNextStep(n) ==
  IF n.t = "str" THEN n.s
  ELSE <<"R", "e", "v", "i", "e", "w", " ", "t", "h", "e", " ", "s", "u",
    "m", "m", "a", "r", "y", " ", "a", "n", "d", " ", "t", "a", "k", "e",
    " ", "a", "p", "p", "r", "o", "p", "r", "i", "a", "t", "e", " ", "a",
    "c", "t", "i", "o", "n", ".">>
AnswersSummary(resp, p) ==
  /\ resp.status = 200
  /\ BulletTexts(resp) = ExpectedBullets(BulletsMember(p).items)
  /\ resp.body.nextStep = ExpectedNextStep(NextStepMember(p))
SummaryAnswered(resp, p) == IsSummaryObject(p) => AnswersSummary(resp, p)

\* C7, as stated: for a model text that parses as a JSON object with n
\* bullet strings and a nextStep, the bullets are the first min(n, 5) of
\* them in order and then placeholders, the nextStep the one given or the
\* default sentence.
C7_JsonSummary ==
  NormDone => SummaryAnswered(norm_response, JsonLoads(Strip(norm_content)))

\* C7, amended: the same of the text that the fence extraction selected (the
\* whole model text when it has no fence marker).
C7_ExtractedJsonSummary ==
  NormDone => SummaryAnswered(norm_response, JsonLoads(Strip(norm_extracted)))

\* a JSON object of more than five bullets was answered with the first five
C7_Witness ==
  /\ NormDone
  /\ IsSummaryObject(JsonLoads(Strip(norm_extracted)))
  /\ Len(BulletsMember(JsonLoads(Strip(norm_extracted))).items) > 5
  /\ AnswersSummary(norm_response, JsonLoads(Strip(norm_extracted)))

\* the bullet markers: "-", "*", the bullet dot, "1." to "5."
ListMarkers ==
  {<<"-">>, <<"*">>, <<BULLET>>, <<"1", ".">>, <<"2", ".">>, <<"3", ".">>,
   <<"4", ".">>, <<"5", ".">>}
HasMarker(line) == \E m \in ListMarkers : StartsWith(line, m)
MarkerOf(line) == CHOOSE m \in ListMarkers : StartsWith(line, m)

\* the line without its marker and the separators after it
Unmarked(line) == LStripChars(From(line, Len(MarkerOf(line)) + 1), Whitespace)

\* the non-empty trimmed lines of a text
TrimmedOf(lines) == [i \in 1..Len(lines) |-> Strip(lines[i])]
NonEmpty(line) == line # <<>>
TrimmedLines(text) == SelectSeq(TrimmedOf(Split(text, <<NL>>)), NonEmpty)

\* the bullets of the lines: the marked lines that are more than a marker,
\* unmarked, in order
IsMarked(line) == HasMarker(line) /\ Unmarked(line) # <<>>
MarkedLines(lines) == SelectSeq(lines, IsMarked)
UnmarkedOf(marked) == [i \in 1..Len(marked) |-> [s |-> Unmarked(marked[i])]]

\* the next step of the lines: from the last that names one
NamesNextStep(line) ==
  Contains(Lower(line), <<"n", "e", "x", "t", " ", "s", "t", "e", "p">>) \/ Contains(Lower(line), <<"a",
    "c", "t", "i", "o", "n">>)
AfterColon(line) ==
  IF Contains(line, <<":">>) THEN Strip(From(line, Find(line, <<":">>, 1) + 1))
  ELSE line
LastOf(naming) ==
  IF Len(naming) = 0 THEN <<"R", "e", "v", "i", "e", "w", " ", "t", "h",
    "e", " ", "s", "u", "m", "m", "a", "r", "y", " ", "a", "n", "d", " ",
    "t", "a", "k", "e", " ", "a", "p", "p", "r", "o", "p", "r", "i", "a",
    "t", "e", " ", "a", "c", "t", "i", "o", "n", ".">>
  ELSE AfterColon(naming[Len(naming)])

ScanAnswered(resp, lines) ==
  /\ resp.status = 200
  /\ BulletTexts(resp) = ExpectedBullets(UnmarkedOf(MarkedLines(lines)))
  /\ resp.body.nextStep = LastOf(SelectSeq(lines, NamesNextStep))

\* C8: for a model text that is no valid JSON, the bullets are the lines
\* that start with a marker, in order, without the marker and the
\* separators after it and otherwise unchanged, padded or cut to 5; the
\* next step is the text after the first colon (else the whole line) of
\* the last line containing "next step" or "action", or the default.
C8_FallbackScan ==
  NormDone /\ ~JsonLoads(Strip(norm_extracted)).ok =>
    ScanAnswered(norm_response, TrimmedLines(norm_extracted))

\* the text after the first `mark` of a text that has one
After(text, mark) == From(text, Find(text, mark, 1) + Len(mark))
\* the text before the first `mark`, the whole text when it has none
Before(text, mark) ==
  IF Contains(text, mark) THEN SubSeq(text, 1, Find(text, mark, 1) - 1) ELSE text
Untagged(body) ==
  IF StartsWith(body, <<"j", "s", "o", "n">>) THEN From(body, 5) ELSE body

\* the content of the first fenced block, tagged json or not
FirstBlock(text) ==
  IF Contains(text, Fence) THEN Before(Untagged(After(text, Fence)), Fence)
  ELSE text

\* C9, as stated: the text parsed is the content of the first fenced block
\* of the model text, tagged json or not; the model text when it has no
\* fence.
C9_FirstFencedBlock == NormDone => norm_extracted = FirstBlock(norm_content)

\* the content of the first block tagged json when there is one, otherwise
\* of the first block
PreferredBlock(text) ==
  IF Contains(text, FenceJson)
  THEN Before(Before(After(text, FenceJson), FenceJson), Fence)
  ELSE IF Contains(text, Fence) THEN Before(After(text, Fence), Fence)
  ELSE text

\* C9, amended: the text parsed is what follows the first json-tagged fence
\* marker, up to the next fence marker, when the model text has a marker
\* tagged json, even after an untagged block; otherwise the content of the
\* first fenced block; the model text when it has no fence.
C9_JsonBlockFirst == NormDone => norm_extracted = PreferredBlock(norm_content)

\* an untagged block came before a block tagged json, whose content was
\* selected
C9_Witness ==
  /\ NormDone
  /\ Contains(norm_content, FenceJson)
  /\ Find(norm_content, Fence, 1) < Find(norm_content, FenceJson, 1)
  /\ norm_extracted # FirstBlock(norm_content)
  /\ norm_extracted = PreferredBlock(norm_content)
  /\ JsonLoads(Strip(norm_extracted)).ok

SaysScheduled(resp) == StartsWith(resp.body.message, <<"E", "m", "a", "i",
    "l", " ", "s", "c", "h", "e", "d", "u", "l", "e", "d", " ", "f", "o",
    "r", " ">>)
ScheduledAtPassed(r) == emails[r].sent /\ emails[r].params.scheduled_at # None

\* C10: a /send-email request that succeeds is reported as scheduled if and
\* only if a scheduled_at was passed to the email provider.
C10_ScheduledIffPassed ==
  \A r \in Requests :
    SendsEmail(r) /\ response[r].status = 200 =>
      (SaysScheduled(response[r]) <=> ScheduledAtPassed(r))

=============================================================================
